---- MODULE Spec2Model ----
(***************************************************************************)
(* Bitbucket Server collection helpers (package tasks) and the commit      *)
(* collector CollectApiCommits that configures the stateful, paginated     *)
(* collection engine with them.                                            *)
(***************************************************************************)
EXTENDS Integers, Sequences, FiniteSets, TLC

VARIABLES
    fn,          \* the helper under call ("run" while a collection run is modelled)
    arg,         \* the helper's arguments
    ret,         \* the helper's result ([kind |-> "none"] before the call returns)
    pc,          \* position inside the collector's entry point
    runState,    \* Init / Running / Completed / Failed
    cfg,         \* the ApiCollectorArgs handed to InitCollector
    store,       \* the persisted CollectorState
    preStore,    \* history: the persisted CollectorState before the run
    writes,      \* history: number of writes of the persisted CollectorState
    collector,   \* ApiCollectorStateManager: the loaded Since / IsIncremental
    table,       \* rows of _tool_bitbucket_server_branches
    params,      \* data.Options: FullName, ConnectionId
    cursorOpen,  \* the Input Source cursor is held
    opened,      \* history: the cursor was opened in this run
    seeds,       \* seeds the iterator has still to yield
    pulled,      \* history: [seed, size] of every seed pulled, in order
    curSeed,     \* the seed of the inner pagination loop
    remoteSize,  \* number of commits the remote holds for curSeed
    page,        \* Pager.Page of the next request
    token,       \* cursor mode: the page token of the next request
    total,       \* page-count mode: total pages of the current seed
    req,         \* the request in flight
    resp,        \* the response in flight
    raw,         \* persisted raw records: [seed, page, n], n records of one page
    log,         \* history: one entry per request sent and its response
    ended,       \* history: [seed, how] of every inner loop that ended normally
    err          \* the error the entry point returns ("nil" for none)

helperVars == <<fn, arg, ret>>
runVars == <<pc, runState, cfg, store, preStore, writes, collector, table, params,
             cursorOpen, opened, seeds, pulled, curSeed, remoteSize, page, token, total,
             req, resp, raw, log, ended, err>>
vars == <<fn, arg, ret, pc, runState, cfg, store, preStore, writes, collector, table,
          params, cursorOpen, opened, seeds, pulled, curSeed, remoteSize, page, token,
          total, req, resp, raw, log, ended, err>>

(***************************************************************************)
(* Bounds of the model.                                                    *)
(***************************************************************************)
MaxSize == 300
NegSizes == 2
MaxPageSize == 4
MaxTimeK == 2
MaxPagerPage == 3
MaxParams == 2
MaxRows == 2
MaxClock == 2
MaxRemoteUnits == 5
MaxRunRows == 2

\* PageSize handed to InitCollector by CollectApiCommits
PageSize == 100

StatusUnauthorized == 401
StatusNotFound == 404

(***************************************************************************)
(* Go integer arithmetic: / truncates toward zero and % takes the sign of  *)
(* the dividend.                                                           *)
(***************************************************************************)
Abs(x) == IF x < 0 THEN 0 - x ELSE x
GoDiv(a, b) == IF (a < 0) = (b < 0) THEN Abs(a) \div Abs(b) ELSE 0 - (Abs(a) \div Abs(b))
GoMod(a, b) == a - b * GoDiv(a, b)

NoRet == [kind |-> "none"]

(***************************************************************************)
(* An *http.Response as the decoders see it:                               *)
(*   isNil    the response pointer is nil                                  *)
(*   status   StatusCode                                                   *)
(*   readErr  reading the body fails                                       *)
(*   json     the body is JSON that unmarshals into the envelope           *)
(*   hasNext  the body has a "next" field;  next: its text, as tokens      *)
(*   size     the body's "size" (0 when absent)                            *)
(*   values   number of entries of the body's "values"                     *)
(***************************************************************************)
Response(st, sz, n, hn, nx) ==
    [isNil |-> FALSE, status |-> st, readErr |-> FALSE, json |-> TRUE,
     hasNext |-> hn, next |-> nx, size |-> sz, values |-> n]
NilResponse == [Response(0, 0, 0, FALSE, <<>>) EXCEPT !.isNil = TRUE]
ReadErrResponse(st) == [Response(st, 0, 0, FALSE, <<>>) EXCEPT !.readErr = TRUE]
MalformedResponse(st) == [Response(st, 0, 0, FALSE, <<>>) EXCEPT !.json = FALSE]

\* decodeResponse: the error it returns
decodeResponse(res) ==
    IF res.isNil THEN "res is nil"
    ELSE IF res.readErr THEN "error reading response"
    ELSE IF ~res.json THEN "error decoding response"
    ELSE "nil"

\* api.UnmarshalResponse: the error it returns
UnmarshalResponse(res) ==
    IF res.isNil \/ res.readErr \/ ~res.json THEN "error" ELSE "nil"

(***************************************************************************)
(* GetTotalPagesFromResponse(res, args), with pageSize = args.PageSize.    *)
(***************************************************************************)
GetTotalPagesTruncating(res, pageSize) ==
    IF UnmarshalResponse(res) # "nil" THEN [kind |-> "error", pages |-> 0]
    ELSE IF pageSize = 0 THEN [kind |-> "panic", pages |-> 0]
    ELSE [kind |-> "ok", pages |-> GoDiv(res.size, pageSize)]

GetTotalPagesOvercounting(res, pageSize) ==
    IF UnmarshalResponse(res) # "nil" THEN [kind |-> "error", pages |-> 0]
    ELSE IF pageSize = 0 THEN [kind |-> "panic", pages |-> 0]
    ELSE [kind |-> "ok", pages |-> GoDiv(res.size, pageSize) + 1]

GetTotalPagesFromResponse(res, pageSize) ==
    IF UnmarshalResponse(res) # "nil" THEN [kind |-> "error", pages |-> 0]
    ELSE IF pageSize = 0 THEN [kind |-> "panic", pages |-> 0]
    ELSE LET pages == GoDiv(res.size, pageSize)
         IN  [kind |-> "ok",
              pages |-> IF GoMod(res.size, pageSize) > 0 THEN pages + 1 ELSE pages]

(***************************************************************************)
(* ignoreHTTPStatus404: the error value returned for a response status.    *)
(***************************************************************************)
ignoreHTTPStatus404Swapped(status) ==
    IF status = StatusNotFound THEN "Unauthorized"
    ELSE IF status = StatusUnauthorized THEN "ErrIgnoreAndContinue"
    ELSE "nil"

ignoreHTTPStatus404(status) ==
    IF status = StatusUnauthorized THEN "Unauthorized"
    ELSE IF status = StatusNotFound THEN "ErrIgnoreAndContinue"
    ELSE "nil"

(***************************************************************************)
(* time.Time.Format(time.RFC3339) = "2006-01-02T15:04:05Z07:00".  A time   *)
(* is [isNil, unix, nsec, offset]: seconds since the epoch, nanoseconds    *)
(* and the zone offset in seconds; isNil stands for a nil *time.Time.      *)
(***************************************************************************)
NilTime == [isNil |-> TRUE, unix |-> 0, nsec |-> 0, offset |-> 0]
Time(u, n, o) == [isNil |-> FALSE, unix |-> u, nsec |-> n, offset |-> o]

\* appendInt(b, x, width): a minus sign for a negative x, then the digits of
\* |x| padded with zeros to the width
Digits2(n) == IF n < 10 THEN "0" \o ToString(n) ELSE ToString(n)
Digits4(n) == IF n < 10 THEN "000" \o ToString(n)
              ELSE IF n < 100 THEN "00" \o ToString(n)
              ELSE IF n < 1000 THEN "0" \o ToString(n)
              ELSE ToString(n)
Pad2(n) == IF n < 0 THEN "-" \o Digits2(0 - n) ELSE Digits2(n)
Pad4(n) == IF n < 0 THEN "-" \o Digits4(0 - n) ELSE Digits4(n)

\* civil date of a day number counted from 1970-01-01
CivilFromDays(days) ==
    LET z == days + 719468
        era == z \div 146097
        doe == z - era * 146097
        yoe == (doe - doe \div 1460 + doe \div 36524 - doe \div 146096) \div 365
        doy == doe - (365 * yoe + yoe \div 4 - yoe \div 100)
        mp == (5 * doy + 2) \div 153
        d == doy - (153 * mp + 2) \div 5 + 1
        m == IF mp < 10 THEN mp + 3 ELSE mp - 9
        y == yoe + era * 400 + (IF m <= 2 THEN 1 ELSE 0)
    IN  [year |-> y, month |-> m, day |-> d]

\* "Z07:00": "Z" for the offset 0; otherwise the offset is truncated to whole
\* minutes and the sign is that of the truncated value, so an offset of less
\* than a minute west of UTC prints "+00:00"
ZoneSuffix(offset) ==
    IF offset = 0 THEN "Z"
    ELSE LET zone == GoDiv(offset, 60)
         IN  (IF zone < 0 THEN "-" ELSE "+")
             \o Pad2(Abs(zone) \div 60) \o ":" \o Pad2(Abs(zone) % 60)

FormatRFC3339(t) ==
    LET local == t.unix + t.offset
        date == CivilFromDays(local \div 86400)
        sec == local % 86400
    IN  Pad4(date.year) \o "-" \o Pad2(date.month) \o "-" \o Pad2(date.day) \o "T"
        \o Pad2(sec \div 3600) \o ":" \o Pad2((sec % 3600) \div 60) \o ":"
        \o Pad2(sec % 60) \o ZoneSuffix(t.offset)

(***************************************************************************)
(* url.Values: a function from keys to the list of their values.           *)
(***************************************************************************)
EmptyValues == [k \in {} |-> <<>>]
ValuesSet(q, k, v) == [x \in DOMAIN q \cup {k} |-> IF x = k THEN <<v>> ELSE q[x]]
ValuesHas(q, k) == k \in DOMAIN q
ValuesGet(q, k) == IF k \in DOMAIN q /\ Len(q[k]) > 0 THEN q[k][1] ELSE ""

\* GetQuery: pager is reqData.Pager
GetQuery(pager) ==
    ValuesSet(ValuesSet(ValuesSet(EmptyValues, "state", "all"),
                        "page", ToString(pager.Page)),
              "pagelen", ToString(pager.Size))

GetQueryCreatedAndUpdatedIncrementalOnly(fields, state, pager) ==
    LET q == ValuesSet(ValuesSet(GetQuery(pager), "fields", fields), "sort", "created_on")
    IN  IF state.IsIncremental /\ ~state.Since.isNil
        THEN ValuesSet(q, "q", "updated_on>=" \o FormatRFC3339(state.Since))
        ELSE q

\* GetQueryCreatedAndUpdated(fields, collectorWithState)(reqData)
GetQueryCreatedAndUpdated(fields, state, pager) ==
    LET q == ValuesSet(ValuesSet(GetQuery(pager), "fields", fields), "sort", "created_on")
    IN  IF ~state.Since.isNil
        THEN ValuesSet(q, "q", "updated_on>=" \o FormatRFC3339(state.Since))
        ELSE q

\* GetQueryFields(fields)(reqData)
GetQueryFields(fields, pager) == ValuesSet(GetQuery(pager), "fields", fields)

(***************************************************************************)
(* Text of a "next" link, as a sequence of tokens.  A token is a run of    *)
(* ASCII letters (Alpha), a run of ASCII digits (Numerals), one            *)
(* punctuation character (Punct), one percent escape (Escapes: "%37" is    *)
(* "7", "%25" is "%", "%zz" is no valid escape), or the control character  *)
(* CTL.  Texts with other characters are outside the model.                *)
(***************************************************************************)
CTL == "\\x7f"
Alpha == {"https", "mailto", "host", "path", "page", "other", "x"}
Numerals == {"7", "8", "9", "12", "80"}
Punct == {":", "/", "?", "#", "&", "=", ";", "@", "+"}
Escapes == {"%37", "%25", "%zz"}
Tokens == Alpha \cup Numerals \cup Punct \cup Escapes \cup {CTL}

Text == Seq(Tokens)

\* first and last index of token t in s, 0 when there is none
IndexOf[s \in Text, t \in Tokens] ==
    LET hits == {i \in 1..Len(s) : s[i] = t}
    IN  IF hits = {} THEN 0 ELSE CHOOSE i \in hits : \A j \in hits : i <= j
LastIndexOf[s \in Text, t \in Tokens] ==
    LET hits == {i \in 1..Len(s) : s[i] = t}
    IN  IF hits = {} THEN 0 ELSE CHOOSE i \in hits : \A j \in hits : j <= i

\* strings.Cut(s, t): the text before and after the first t
CutBefore[s \in Text, t \in Tokens] ==
    IF IndexOf[s, t] = 0 THEN s ELSE SubSeq(s, 1, IndexOf[s, t] - 1)
CutAfter[s \in Text, t \in Tokens] ==
    IF IndexOf[s, t] = 0 THEN <<>> ELSE SubSeq(s, IndexOf[s, t] + 1, Len(s))
\* the text from the first t on, empty when there is none
CutFrom[s \in Text, t \in Tokens] ==
    IF IndexOf[s, t] = 0 THEN <<>> ELSE SubSeq(s, IndexOf[s, t], Len(s))
\* the text after the last t, the whole text when there is none
AfterLast[s \in Text, t \in Tokens] == SubSeq(s, LastIndexOf[s, t] + 1, Len(s))

\* strings.Split(s, t): the pieces of s between the separators t
Split[s \in Text, t \in Tokens] ==
    LET seps == {i \in 1..Len(s) : s[i] = t}
        n == Cardinality(seps)
        Pos(k) == IF k = 0 THEN 0
                  ELSE IF k = n + 1 THEN Len(s) + 1
                  ELSE CHOOSE i \in seps : Cardinality({j \in seps : j < i}) = k - 1
    IN  [k \in 1..(n + 1) |-> SubSeq(s, Pos(k - 1) + 1, Pos(k) - 1)]

\* url.QueryUnescape of one token
UnescapeToken(t) ==
    IF t = "%37" THEN "7" ELSE IF t = "%25" THEN "%" ELSE IF t = "+" THEN " " ELSE t
\* url.QueryUnescape: the text, or an error on an invalid escape
Unescape[s \in Text] ==
    IF s = <<>> THEN "" ELSE UnescapeToken(Head(s)) \o Unescape[Tail(s)]
\* unescape returns an error: in a path, a fragment, a userinfo or a query
\* component on an invalid escape
UnescapeFails[s \in Text] == \E i \in 1..Len(s) : s[i] = "%zz"
\* in a host also on the escape of an ASCII byte other than "%25"
HostUnescapeFails[s \in Text] == \E i \in 1..Len(s) : s[i] \in {"%zz", "%37"}

\* getScheme: the leading "scheme:" is split off when the text starts with a
\* letter and only letters, digits and "+" precede the first ":"; a leading
\* ":" is the error "missing protocol scheme"
GetScheme[s \in Text] ==
    LET stops == {i \in 1..Len(s) : s[i] \notin Alpha \cup Numerals \cup {"+"}}
        j == IF stops = {} THEN 0 ELSE CHOOSE i \in stops : \A k \in stops : i <= k
    IN  IF s # <<>> /\ s[1] = ":"
        THEN [err |-> TRUE, hasScheme |-> FALSE, rest |-> <<>>]
        ELSE IF s # <<>> /\ s[1] \in Alpha /\ j # 0 /\ s[j] = ":"
        THEN [err |-> FALSE, hasScheme |-> TRUE, rest |-> SubSeq(s, j + 1, Len(s))]
        ELSE [err |-> FALSE, hasScheme |-> FALSE, rest |-> s]

\* parseHost: what follows the last ":" must be digits only (the port), and
\* the host must unescape
ParseHostFails[h \in Text] ==
    \/ /\ LastIndexOf[h, ":"] # 0
       /\ \E i \in 1..Len(AfterLast[h, ":"]) : AfterLast[h, ":"][i] \notin Numerals
    \/ HostUnescapeFails[h]
\* parseAuthority: the host follows the last "@", the userinfo precedes it
\* and must unescape
ParseAuthorityFails[a \in Text] ==
    \/ ParseHostFails[AfterLast[a, "@"]]
    \/ /\ LastIndexOf[a, "@"] # 0
       /\ UnescapeFails[SubSeq(a, 1, LastIndexOf[a, "@"] - 1)]

HasPrefix(s, p) == Len(s) >= Len(p) /\ SubSeq(s, 1, Len(p)) = p

\* parse(rawURL, false) returns an error: u is the text before "#", rest its
\* part after the scheme and before the first "?"
ParseFails[u \in Text] ==
    LET rest == CutBefore[GetScheme[u].rest, "?"]
    IN  \/ \E i \in 1..Len(u) : u[i] = CTL
        \/ GetScheme[u].err
        \/ IF ~HasPrefix(rest, <<"/">>)
           THEN /\ ~GetScheme[u].hasScheme
                /\ \/ IndexOf[CutBefore[rest, "/"], ":"] # 0
                   \/ UnescapeFails[rest]
           ELSE IF /\ HasPrefix(rest, <<"/", "/">>)
                   /\ GetScheme[u].hasScheme \/ ~HasPrefix(rest, <<"/", "/", "/">>)
           THEN \/ ParseAuthorityFails[CutBefore[SubSeq(rest, 3, Len(rest)), "/"]]
                \/ UnescapeFails[CutFrom[SubSeq(rest, 3, Len(rest)), "/"]]
           ELSE UnescapeFails[rest]

\* url.Parse: ok is false when it returns an error; rawQuery is u.RawQuery.
\* The text is cut at its first "#" into the URL and the fragment.  It is an
\* error when parse fails on the URL or the fragment does not unescape; a
\* URL with a scheme and no leading "/" is opaque and its path is not
\* checked; the raw query is kept unchecked.
ParseURL[s \in Text] ==
    IF ParseFails[CutBefore[s, "#"]] \/ UnescapeFails[CutAfter[s, "#"]]
    THEN [ok |-> FALSE, rawQuery |-> <<>>]
    ELSE [ok |-> TRUE, rawQuery |-> CutAfter[GetScheme[CutBefore[s, "#"]].rest, "?"]]

\* url.ParseQuery (Go 1.17 and later): each "&"-separated segment is cut at
\* its first "=" into key and value; a segment that holds a ";", is empty, or
\* whose key or value does not unescape adds nothing; the values of a key keep
\* their order
SegmentAdds(seg) ==
    IndexOf[seg, ";"] = 0 /\ seg # <<>> /\ ~UnescapeFails[CutBefore[seg, "="]] /\ ~UnescapeFails[CutAfter[seg, "="]]
KeyOf[seg \in Text] == Unescape[CutBefore[seg, "="]]
ValueOf[seg \in Text] == Unescape[CutAfter[seg, "="]]
ValuesOfKey[added \in Seq(Text), k \in STRING] ==
    LET withKey == SelectSeq(added, LAMBDA seg : KeyOf[seg] = k)
    IN  [i \in 1..Len(withKey) |-> ValueOf[withKey[i]]]
AddedSegments[rawQuery \in Text] == SelectSeq(Split[rawQuery, "&"], SegmentAdds)
QueryOfSegments[added \in Seq(Text)] ==
    [k \in {KeyOf[added[i]] : i \in 1..Len(added)} |-> ValuesOfKey[added, k]]
ParseQuery[rawQuery \in Text] == QueryOfSegments[AddedSegments[rawQuery]]

\* u.Query()
URLQuery(u) == ParseQuery[u.rawQuery]

\* the values of key k of the query of the URL text s, none when the key is absent
QueryValues[s \in Text, k \in STRING] ==
    IF ValuesHas(URLQuery(ParseURL[s]), k) THEN URLQuery(ParseURL[s])[k] ELSE <<>>

(***************************************************************************)
(* GetNextPageCustomData(_, prevPageResponse): kind is "ok" (token is the  *)
(* returned value), "finish" (api.ErrFinishCollect), "error" (another      *)
(* error value) or "panic" (index out of range on u.Query()["page"]).      *)
(***************************************************************************)
GetNextPageCustomDataLastValue(res) ==
    IF decodeResponse(res) # "nil" THEN [kind |-> "error", token |-> ""]
    ELSE IF ~res.hasNext \/ res.next = <<>> THEN [kind |-> "finish", token |-> ""]
    ELSE IF ~ParseURL[res.next].ok THEN [kind |-> "error", token |-> ""]
    ELSE IF Len(QueryValues[res.next, "page"]) < 1 THEN [kind |-> "panic", token |-> ""]
    ELSE [kind |-> "ok",
          token |-> QueryValues[res.next, "page"][Len(QueryValues[res.next, "page"])]]

GetNextPageCustomData(res) ==
    IF decodeResponse(res) # "nil" THEN [kind |-> "error", token |-> ""]
    ELSE IF ~res.hasNext \/ res.next = <<>> THEN [kind |-> "finish", token |-> ""]
    ELSE IF ~ParseURL[res.next].ok THEN [kind |-> "error", token |-> ""]
    ELSE IF Len(QueryValues[res.next, "page"]) < 1 THEN [kind |-> "panic", token |-> ""]
    ELSE [kind |-> "ok", token |-> QueryValues[res.next, "page"][1]]

\* GetRawMessageFromResponse: the number of raw messages returned
GetRawMessageFromResponse(res) ==
    IF decodeResponse(res) # "nil" THEN [kind |-> "error", n |-> 0]
    ELSE [kind |-> "ok", n |-> res.values]

(***************************************************************************)
(* The Input Source.  A stored row is [repo_id, connection_id, key,        *)
(* updated]: key is the selected column (branch, commit_sha or             *)
(* bitbucket_id) and updated is bitbucket_updated_at, which may be NULL.   *)
(* A dal clause is a record; db.Cursor yields the selected column of the   *)
(* rows of the From table that satisfy every Where clause.                 *)
(***************************************************************************)
NullStamp == [isNull |-> TRUE, unix |-> 0]
Stamp(u) == [isNull |-> FALSE, unix |-> u]

WhereHolds(row, c) ==
    IF c.kind = "where_scope"
    THEN row.repo_id = c.repo /\ row.connection_id = c.conn
    ELSE IF c.kind = "where_updated_gt"
    THEN ~row.updated.isNull /\ row.updated.unix > c.since.unix
    ELSE TRUE

\* the table named by the From clause
FromTable(clauses) ==
    LET i == CHOOSE j \in 1..Len(clauses) : clauses[j].kind = "from"
    IN  clauses[i].table

\* db.Cursor(clauses...): the selected column of the rows of the From table that
\* satisfy every Where clause
Cursor(db, clauses) ==
    {row.key : row \in {r \in db[FromTable(clauses)] :
                            \A i \in 1..Len(clauses) : WhereHolds(r, clauses[i])}}

IteratorClausesAlwaysFiltered(column, tableName, options, state) ==
    <<[kind |-> "select", column |-> column],
      [kind |-> "from", table |-> tableName],
      [kind |-> "where_scope", repo |-> options.FullName, conn |-> options.ConnectionId]>>
    \o (IF ~state.Since.isNil
        THEN <<[kind |-> "where_updated_gt", since |-> state.Since]>>
        ELSE <<>>)

\* the clauses GetBranchesIterator, GetCommitsIterator and GetPullRequestsIterator build
IteratorClauses(column, tableName, options, state) ==
    <<[kind |-> "select", column |-> column],
      [kind |-> "from", table |-> tableName],
      [kind |-> "where_scope", repo |-> options.FullName, conn |-> options.ConnectionId]>>
    \o (IF state.IsIncremental /\ ~state.Since.isNil
        THEN <<[kind |-> "where_updated_gt", since |-> state.Since]>>
        ELSE <<>>)

GetBranchesIterator(db, options, state) ==
    Cursor(db, IteratorClauses("bb.branch", "_tool_bitbucket_server_branches",
                               options, state))

GetCommitsIterator(db, options, state) ==
    Cursor(db, IteratorClauses("bc.commit_sha", "_tool_bitbucket_server_commits",
                               options, state))

GetPullRequestsIterator(db, options, state) ==
    Cursor(db, IteratorClauses("bpr.bitbucket_id", "_tool_bitbucket_server_pull_requests",
                               options, state))

(***************************************************************************)
(* Input sets of the helper calls.                                         *)
(***************************************************************************)
Sizes == (0 - NegSizes)..MaxSize
PageSizes == (0..MaxPageSize) \cup {PageSize}
TotalPagesArgs ==
    [res : {Response(200, sz, 0, FALSE, <<>>) : sz \in Sizes}
             \cup {MalformedResponse(200), NilResponse},
     pageSize : PageSizes]

StatusCodes == 100..599

QueryTimes ==
    {Time(1672531200 + k * 36719999, n, o) :
        k \in 0..MaxTimeK, n \in {0, 500000000}, o \in {0, 3600, 0 - 19800, 0 - 30}}
QueryStates == [Since : QueryTimes \cup {NilTime}, IsIncremental : BOOLEAN]
QueryArgs ==
    [fields : {"values.hash", ""},
     state : QueryStates,
     pager : [Page : 1..MaxPagerPage, Size : {PageSize}]]

\* The text of a next link, by construction: a base, an optional query of
\* segments, an optional fragment.
SegmentValues == {<<>>, <<"7">>, <<"%37">>, <<"12">>, <<"%zz">>, <<"7", ";", "8">>}
Segments ==
    {<<>>} \cup {<<k>> : k \in {"page", "other"}}
           \cup {<<k, "=">> \o v : k \in {"page", "other"}, v \in SegmentValues}
RECURSIVE SegmentLists(_)
SegmentLists(n) ==
    IF n = 0 THEN {<<>>}
    ELSE LET shorter == SegmentLists(n - 1)
         IN  shorter \cup {Append(l, g) : l \in shorter, g \in Segments}
RECURSIVE Join(_, _)
Join(l, sep) ==
    IF l = <<>> THEN <<>>
    ELSE IF Len(l) = 1 THEN l[1]
    ELSE l[1] \o <<sep>> \o Join(Tail(l), sep)
HostPath == <<"https", ":", "/", "/", "host", "/", "path">>
\* bases url.Parse accepts: absolute, with a port, rootless (opaque, its
\* escapes unchecked), relative
ParsedBases ==
    {HostPath,
     <<"https", ":", "/", "/", "host", ":", "80", "/", "path">>,
     <<"mailto", ":", "x", "%zz">>,
     <<"/", "path">>}
\* bases url.Parse rejects: control character, invalid escape in the path,
\* escape in the host, port that is no number, invalid escape in the
\* userinfo, missing scheme, colon in the first segment of a relative path
RejectedBases ==
    {<<"https", ":", "/", "/", "host", "/", CTL>>,
     <<"https", ":", "/", "/", "host", "/", "%zz">>,
     <<"https", ":", "/", "/", "host", "%37", "/", "path">>,
     <<"https", ":", "/", "/", "host", ":", "x", "/", "path">>,
     <<"https", ":", "/", "/", "%zz", "@", "host", "/", "path">>,
     <<":", "/", "/", "host", "/", "path">>,
     <<"7", ":", "x">>}
Bases == ParsedBases \cup RejectedBases
Fragments == {<<>>, <<"#", "page", "=", "9">>, <<"#", "%zz">>}
NextLinks ==
    [base : Bases, hasQuery : BOOLEAN, segs : SegmentLists(MaxParams), frag : Fragments]
RenderLink(l) ==
    l.base \o (IF l.hasQuery THEN <<"?">> \o Join(l.segs, "&") ELSE <<>>) \o l.frag
NoLink == [base |-> <<>>, hasQuery |-> FALSE, segs |-> <<>>, frag |-> <<>>]
NextPageArgs ==
    {[res |-> Response(200, 0, 0, TRUE, RenderLink(l)), link |-> l] :
        l \in {x \in NextLinks : x.hasQuery \/ x.segs = <<>>}}
    \cup {[res |-> r, link |-> NoLink] :
            r \in {NilResponse, ReadErrResponse(200), MalformedResponse(200),
                   Response(200, 0, 0, FALSE, <<>>), Response(200, 0, 0, TRUE, <<>>)}}

Repos == {"PROJ/repos/app", "PROJ/repos/lib"}
Connections == {1, 2}
Keys == {"main", "dev"}
Stamps == {NullStamp} \cup {Stamp(u) : u \in 1..MaxClock}
AllRows == [repo_id : Repos, connection_id : Connections, key : Keys, updated : Stamps]
SameRow(a, b) ==
    a.repo_id = b.repo_id /\ a.connection_id = b.connection_id /\ a.key = b.key
RECURSIVE TablesUpTo(_)
\* tables of at most n rows, no two rows with the same primary key
TablesUpTo(n) ==
    IF n = 0 THEN {{}}
    ELSE LET smaller == TablesUpTo(n - 1)
         IN  smaller \cup UNION {{t \cup {r} : r \in {x \in AllRows :
                                                        \A y \in t : ~SameRow(x, y)}} :
                                     t \in smaller}
Options == [FullName : Repos, ConnectionId : Connections]
ClockTimes == {Time(u, 0, 0) : u \in 1..MaxClock}
CollectorStates == [Since : ClockTimes \cup {NilTime}, IsIncremental : BOOLEAN]
TableNames == {"_tool_bitbucket_server_branches", "_tool_bitbucket_server_commits",
               "_tool_bitbucket_server_pull_requests"}
\* rows of the tables an iterator is not about
DecoyRows ==
    {[repo_id |-> r, connection_id |-> c, key |-> "decoy", updated |-> Stamp(MaxClock + 1)] :
        r \in Repos, c \in Connections}
Database(tableName, rows) ==
    [n \in TableNames |-> IF n = tableName THEN rows ELSE DecoyRows]
IteratorArgs ==
    [rows : TablesUpTo(MaxRows), options : Options, state : CollectorStates]

(***************************************************************************)
(* Calls of the helpers: the arguments are drawn by the initial state and  *)
(* the call stores the result.  No collection run is in progress.  An      *)
(* iterator call returns the error of db.Cursor and no iterator, or an     *)
(* iterator that holds the opened cursor.                                  *)
(***************************************************************************)
NoSeed == ""
NoResponse == NilResponse
NoCollector == [Since |-> NilTime, IsIncremental |-> FALSE]
NoConfig == [mode |-> "none", afterResponse |-> "none", PageSize |-> 0]
NoRequest == [url |-> "", query |-> EmptyValues]

RunIdle ==
    /\ pc = "idle" /\ runState = "Init" /\ cfg = NoConfig
    /\ store = NoCollector /\ preStore = NoCollector /\ writes = 0
    /\ collector = NoCollector /\ table = {} /\ params = [FullName |-> "", ConnectionId |-> 0]
    /\ cursorOpen = FALSE /\ opened = FALSE
    /\ seeds = <<>> /\ pulled = <<>> /\ curSeed = NoSeed /\ remoteSize = 0
    /\ page = 0 /\ token = "" /\ total = 0 /\ req = NoRequest /\ resp = NoResponse
    /\ raw = {} /\ log = <<>> /\ ended = {} /\ err = "nil"

Returned == ret # NoRet

InitTotalPages ==
    /\ fn = "GetTotalPagesFromResponse" /\ arg \in TotalPagesArgs /\ ret = NoRet
    /\ RunIdle

CallGetTotalPagesFromResponse ==
    /\ fn = "GetTotalPagesFromResponse" /\ ret = NoRet
    /\ ret' = GetTotalPagesFromResponse(arg.res, arg.pageSize)
    /\ UNCHANGED <<fn, arg, runVars>>

SpecTotalPages == InitTotalPages /\ [][CallGetTotalPagesFromResponse]_vars

InitStatus ==
    /\ fn = "ignoreHTTPStatus404" /\ arg \in [status : StatusCodes] /\ ret = NoRet
    /\ RunIdle

CallIgnoreHTTPStatus404 ==
    /\ fn = "ignoreHTTPStatus404" /\ ret = NoRet
    /\ ret' = [kind |-> "returned", err |-> ignoreHTTPStatus404(arg.status)]
    /\ UNCHANGED <<fn, arg, runVars>>

SpecStatus == InitStatus /\ [][CallIgnoreHTTPStatus404]_vars

InitQuery ==
    /\ fn \in {"GetQuery", "GetQueryFields", "GetQueryCreatedAndUpdated"}
    /\ arg \in QueryArgs /\ ret = NoRet
    /\ RunIdle

CallGetQuery ==
    /\ fn = "GetQuery" /\ ret = NoRet
    /\ ret' = [kind |-> "returned", query |-> GetQuery(arg.pager)]
    /\ UNCHANGED <<fn, arg, runVars>>

CallGetQueryFields ==
    /\ fn = "GetQueryFields" /\ ret = NoRet
    /\ ret' = [kind |-> "returned", query |-> GetQueryFields(arg.fields, arg.pager)]
    /\ UNCHANGED <<fn, arg, runVars>>

CallGetQueryCreatedAndUpdated ==
    /\ fn = "GetQueryCreatedAndUpdated" /\ ret = NoRet
    /\ ret' = [kind |-> "returned",
               query |-> GetQueryCreatedAndUpdated(arg.fields, arg.state, arg.pager)]
    /\ UNCHANGED <<fn, arg, runVars>>

NextQuery == CallGetQuery \/ CallGetQueryFields \/ CallGetQueryCreatedAndUpdated
SpecQuery == InitQuery /\ [][NextQuery]_vars

InitNextPage ==
    /\ fn = "GetNextPageCustomData" /\ arg \in NextPageArgs /\ ret = NoRet
    /\ RunIdle

CallGetNextPageCustomData ==
    /\ fn = "GetNextPageCustomData" /\ ret = NoRet
    /\ ret' = GetNextPageCustomData(arg.res)
    /\ UNCHANGED <<fn, arg, runVars>>

SpecNextPage == InitNextPage /\ [][CallGetNextPageCustomData]_vars

InitIterator ==
    /\ fn \in {"GetBranchesIterator", "GetCommitsIterator", "GetPullRequestsIterator"}
    /\ arg \in IteratorArgs /\ ret = NoRet
    /\ RunIdle

CallGetBranchesIterator ==
    /\ fn = "GetBranchesIterator" /\ ret = NoRet
    /\ \E cursorErr \in BOOLEAN :
         IF cursorErr
         THEN /\ ret' = [kind |-> "returned", err |-> "cursor", seeds |-> {}]
              /\ UNCHANGED <<cursorOpen, opened>>
         ELSE /\ ret' = [kind |-> "returned", err |-> "nil",
                         seeds |-> GetBranchesIterator(
                                       Database("_tool_bitbucket_server_branches", arg.rows),
                                       arg.options, arg.state)]
              /\ cursorOpen' = TRUE /\ opened' = TRUE
    /\ UNCHANGED <<fn, arg, pc, runState, cfg, store, preStore, writes, collector, table,
                   params, seeds, pulled, curSeed, remoteSize, page, token, total, req,
                   resp, raw, log, ended, err>>

CallGetCommitsIterator ==
    /\ fn = "GetCommitsIterator" /\ ret = NoRet
    /\ \E cursorErr \in BOOLEAN :
         IF cursorErr
         THEN /\ ret' = [kind |-> "returned", err |-> "cursor", seeds |-> {}]
              /\ UNCHANGED <<cursorOpen, opened>>
         ELSE /\ ret' = [kind |-> "returned", err |-> "nil",
                         seeds |-> GetCommitsIterator(
                                       Database("_tool_bitbucket_server_commits", arg.rows),
                                       arg.options, arg.state)]
              /\ cursorOpen' = TRUE /\ opened' = TRUE
    /\ UNCHANGED <<fn, arg, pc, runState, cfg, store, preStore, writes, collector, table,
                   params, seeds, pulled, curSeed, remoteSize, page, token, total, req,
                   resp, raw, log, ended, err>>

CallGetPullRequestsIterator ==
    /\ fn = "GetPullRequestsIterator" /\ ret = NoRet
    /\ \E cursorErr \in BOOLEAN :
         IF cursorErr
         THEN /\ ret' = [kind |-> "returned", err |-> "cursor", seeds |-> {}]
              /\ UNCHANGED <<cursorOpen, opened>>
         ELSE /\ ret' = [kind |-> "returned", err |-> "nil",
                         seeds |-> GetPullRequestsIterator(
                                       Database("_tool_bitbucket_server_pull_requests", arg.rows),
                                       arg.options, arg.state)]
              /\ cursorOpen' = TRUE /\ opened' = TRUE
    /\ UNCHANGED <<fn, arg, pc, runState, cfg, store, preStore, writes, collector, table,
                   params, seeds, pulled, curSeed, remoteSize, page, token, total, req,
                   resp, raw, log, ended, err>>

NextIterator ==
    CallGetBranchesIterator \/ CallGetCommitsIterator \/ CallGetPullRequestsIterator
SpecIterator == InitIterator /\ [][NextIterator]_vars

(***************************************************************************)
(* C1.  For every Size >= 0 and PageSize > 0, GetTotalPagesFromResponse    *)
(* returns Size div PageSize when the remainder is zero and                *)
(* Size div PageSize + 1 otherwise, which is the least number of pages of  *)
(* PageSize entries that hold Size entries (0 for 0, 3 for 250 and for 300 *)
(* with PageSize 100).                                                     *)
(***************************************************************************)
TotalPagesIsCeiling ==
    (Returned /\ UnmarshalResponse(arg.res) = "nil"
       /\ arg.res.size >= 0 /\ arg.pageSize > 0)
    => /\ ret.kind = "ok"
       /\ ret.pages = IF arg.res.size % arg.pageSize = 0
                      THEN arg.res.size \div arg.pageSize
                      ELSE arg.res.size \div arg.pageSize + 1
       /\ ret.pages * arg.pageSize >= arg.res.size
       /\ (ret.pages - 1) * arg.pageSize < arg.res.size \/ ret.pages = 0
       /\ (arg.res.size = 0) => ret.pages = 0
       /\ (arg.pageSize = 100 /\ arg.res.size \in {250, 300}) => ret.pages = 3

TotalPagesRoundedUp ==
    Returned /\ arg.res.size = 250 /\ arg.pageSize = 100 /\ ret.kind = "ok" /\ ret.pages = 3

(***************************************************************************)
(* C3, as stated: with IsIncremental true and Since set the query of       *)
(* GetQueryCreatedAndUpdated has sort=created_on and                       *)
(* q=updated_on>=<Since in RFC3339>; with IsIncremental false or Since nil *)
(* it has no q.                                                            *)
(***************************************************************************)
IncrementalQueryOnlyWhenIncremental ==
    (Returned /\ fn = "GetQueryCreatedAndUpdated") =>
       /\ (arg.state.IsIncremental /\ ~arg.state.Since.isNil)
          => /\ ValuesGet(ret.query, "sort") = "created_on"
             /\ ValuesGet(ret.query, "q")
                  = "updated_on>=" \o FormatRFC3339(arg.state.Since)
       /\ (~arg.state.IsIncremental \/ arg.state.Since.isNil)
          => ~ValuesHas(ret.query, "q")

(***************************************************************************)
(* C3, amended: the query of GetQueryCreatedAndUpdated always has          *)
(* sort=created_on; it has q=updated_on>=<Since in RFC3339> exactly when   *)
(* Since is set, whatever IsIncremental is, and no q when Since is nil.    *)
(* 2023-01-01T00:00:00Z is rendered as "2023-01-01T00:00:00Z".             *)
(***************************************************************************)
IncrementalQueryWhenSinceSet ==
    (Returned /\ fn = "GetQueryCreatedAndUpdated") =>
       /\ ValuesGet(ret.query, "sort") = "created_on"
       /\ ValuesGet(ret.query, "state") = "all"
       /\ ValuesGet(ret.query, "fields") = arg.fields
       /\ (~arg.state.Since.isNil)
          => /\ ValuesHas(ret.query, "q")
             /\ ret.query["q"] = <<"updated_on>=" \o FormatRFC3339(arg.state.Since)>>
       /\ (arg.state.Since.isNil) => ~ValuesHas(ret.query, "q")
       /\ (~arg.state.Since.isNil /\ arg.state.Since.unix = 1672531200
             /\ arg.state.Since.offset = 0)
          => ValuesGet(ret.query, "q") = "updated_on>=2023-01-01T00:00:00Z"
       /\ (~arg.state.Since.isNil /\ arg.state.Since.unix = 1709251199
             /\ arg.state.Since.offset = 3600)
          => ValuesGet(ret.query, "q") = "updated_on>=2024-03-01T00:59:59+01:00"
       /\ (~arg.state.Since.isNil /\ arg.state.Since.unix = 1672531200
             /\ arg.state.Since.offset = 0 - 30)
          => ValuesGet(ret.query, "q") = "updated_on>=2022-12-31T23:59:30+00:00"

FullSyncQueryFiltered ==
    /\ Returned /\ fn = "GetQueryCreatedAndUpdated"
    /\ ~arg.state.IsIncremental /\ arg.state.Since.unix = 1672531200
    /\ arg.state.Since.offset = 0
    /\ ValuesGet(ret.query, "q") = "updated_on>=2023-01-01T00:00:00Z"

(***************************************************************************)
(* C4.  A decodable response whose next is empty or absent yields the      *)
(* end-of-collection signal; one whose next is a URL carrying a page query *)
(* parameter yields the value of the first such parameter, whatever other  *)
(* parameters surround it.                                                 *)
(***************************************************************************)
SegmentKey(g) == IF g = <<>> THEN "" ELSE g[1]
SegmentDecodes(g) == g # <<>> /\ \A i \in 1..Len(g) : g[i] \notin {"%zz", ";"}
SegmentValue(g) ==
    IF Len(g) < 3 THEN "" ELSE IF g[3] = "%37" THEN "7" ELSE g[3]
PageSegments(l) ==
    {i \in 1..Len(l.segs) : SegmentKey(l.segs[i]) = "page" /\ SegmentDecodes(l.segs[i])}
IsURL(l) == l.base \in ParsedBases /\ l.frag # <<"#", "%zz">>
CarriesPage(l) == IsURL(l) /\ l.hasQuery /\ PageSegments(l) # {}
FirstPageValue(l) ==
    SegmentValue(l.segs[CHOOSE i \in PageSegments(l) : \A j \in PageSegments(l) : i <= j])

CursorLinkDecoded ==
    (Returned /\ fn = "GetNextPageCustomData" /\ decodeResponse(arg.res) = "nil") =>
       /\ (~arg.res.hasNext \/ arg.res.next = <<>>)
          => ret = [kind |-> "finish", token |-> ""]
       /\ (arg.res.hasNext /\ CarriesPage(arg.link))
          => ret = [kind |-> "ok", token |-> FirstPageValue(arg.link)]
       /\ (arg.res.hasNext /\ arg.link # NoLink /\ ~IsURL(arg.link))
          => ret = [kind |-> "error", token |-> ""]

CursorLinkPageAmongOthers ==
    /\ Returned /\ fn = "GetNextPageCustomData"
    /\ arg.res.next = HostPath \o <<"?", "other", "=", "12", "&", "page", "=", "7">>
    /\ ret = [kind |-> "ok", token |-> "7"]

(***************************************************************************)
(* C10.  For every response that decodes, GetNextPageCustomData returns a  *)
(* page token, the end-of-collection signal or an error value, and never   *)
(* aborts on an out-of-range access.                                       *)
(***************************************************************************)
NextPageNeverPanics ==
    (Returned /\ fn = "GetNextPageCustomData" /\ decodeResponse(arg.res) = "nil")
    => ret.kind \in {"ok", "finish", "error"}

(***************************************************************************)
(* C7.  The seeds of an Input Source are the keys of exactly the rows of   *)
(* its table whose repository and connection are the run's, restricted to  *)
(* the rows updated strictly after the watermark if and only if            *)
(* IsIncremental holds and a watermark is set.                             *)
(***************************************************************************)
InScope(r) ==
    r.repo_id = arg.options.FullName /\ r.connection_id = arg.options.ConnectionId
Filtering == arg.state.IsIncremental /\ ~arg.state.Since.isNil
After(r) == ~r.updated.isNull /\ r.updated.unix > arg.state.Since.unix

SeedsAreScopedRows ==
    (Returned /\ ret.err = "nil"
       /\ fn \in {"GetBranchesIterator", "GetCommitsIterator",
                  "GetPullRequestsIterator"}) =>
       /\ cursorOpen
       /\ Filtering => ret.seeds = {r.key : r \in {x \in arg.rows : InScope(x) /\ After(x)}}
       /\ ~Filtering => ret.seeds = {r.key : r \in {x \in arg.rows : InScope(x)}}
       /\ \A r \in arg.rows : ~InScope(r) /\ (\A x \in arg.rows : InScope(x) => x.key # r.key)
                                 => r.key \notin ret.seeds

SeedsFilteredByWatermark ==
    /\ Returned /\ fn = "GetBranchesIterator" /\ ret.err = "nil" /\ Filtering
    /\ \E r \in arg.rows : InScope(r) /\ ~After(r) /\ r.key \notin ret.seeds
    /\ \E r \in arg.rows : InScope(r) /\ After(r) /\ r.key \in ret.seeds

(***************************************************************************)
(* A collection run.  CollectApiCommits creates the stateful collector,    *)
(* opens the branches iterator, defers its Close, hands its arguments to   *)
(* InitCollector and returns what Execute returns.  Execute is the         *)
(* collection engine: for each seed of the Input Source it sends one or    *)
(* more paginated requests, persists the records of each page and, when    *)
(* the Input Source is exhausted, persists the CollectorState.             *)
(***************************************************************************)
\* the ApiCollectorArgs of CollectApiCommits: GetTotalPages is set (page-count
\* mode) and no response hook is
CollectApiCommitsArgs ==
    [mode |-> "count", afterResponse |-> "none", PageSize |-> PageSize]

\* arguments of a collector that pages by cursor links and installs
\* ignoreHTTPStatus404 as its response hook
CursorCollectorArgs ==
    [mode |-> "cursor", afterResponse |-> "ignoreHTTPStatus404", PageSize |-> PageSize]

\* UrlTemplate of CollectApiCommits bound to the params and the seed
CommitsUrl(options, seed) ==
    "rest/api/1.0/projects/" \o options.FullName \o "/commits?until=" \o seed

\* `defer iterator.Close()`: whether the cursor is still held once the entry
\* point has returned, given whether it was held just before
HeldAfterReturnWithoutDefer(held) == held

HeldAfterReturn(held) == FALSE

\* the watermark a completed run persists
RunStart == Time(MaxClock + 1, 0, 0)
CompletedState == [Since |-> RunStart, IsIncremental |-> TRUE]

StateAfterFailureAdvanced(st) == CompletedState

\* the CollectorState persisted after a run that failed: the one before it
StateAfterFailure(st) == st

Min(a, b) == IF a < b THEN a ELSE b
Max(a, b) == IF a < b THEN b ELSE a

\* number of records the remote serves on page n of a resource of size entries
RecordsOnPage(size, n, pageSize) == Max(0, Min(pageSize, size - (n - 1) * pageSize))

RunLinks ==
    {HostPath \o <<"?", "page", "=", "7">>,
     HostPath \o <<"?", "other", "=", "12", "&", "page", "=", "%37">>,
     HostPath \o <<"?", "other", "=", "12">>,
     <<"https", ":", "/", "/", "host", "/", CTL, "?", "page", "=", "7">>}

RunStatuses == {200, 401, 404, 500}

\* what the HTTP capability may answer to request number n of the current seed
RunResponses(mode, size, n, pageSize) ==
    {Response(st, 0, 0, FALSE, <<>>) : st \in RunStatuses \ {200}}
    \cup {MalformedResponse(200)}
    \cup (IF mode = "cursor" /\ n * pageSize < size
          THEN {Response(200, size, RecordsOnPage(size, n, pageSize), TRUE, l) :
                   l \in RunLinks}
          ELSE {Response(200, size, RecordsOnPage(size, n, pageSize), h, <<>>) :
                   h \in IF mode = "cursor" THEN BOOLEAN ELSE {FALSE}})

RemoteSizes == {u * 50 : u \in 0..MaxRemoteUnits}

RunOptions == [FullName |-> "PROJ/repos/app", ConnectionId |-> 1]
RunRows == {r \in AllRows : r.repo_id = RunOptions.FullName /\ r.updated = Stamp(MaxClock)}
RECURSIVE RunTablesUpTo(_)
RunTablesUpTo(n) ==
    IF n = 0 THEN {{}}
    ELSE LET smaller == RunTablesUpTo(n - 1)
         IN  smaller \cup UNION {{t \cup {r} : r \in {x \in RunRows :
                                                        \A y \in t : ~SameRow(x, y)}} :
                                     t \in smaller}
RunStores == {st \in CollectorStates : st.Since.isNil => ~st.IsIncremental}

\* the orders in which a cursor may yield a set of seeds
Orderings(S) ==
    {q \in [1..Cardinality(S) -> S] : \A i, j \in 1..Cardinality(S) : q[i] = q[j] => i = j}

Init ==
    /\ fn = "run" /\ arg = <<>> /\ ret = NoRet
    /\ pc = "start" /\ runState = "Init"
    /\ cfg \in {CollectApiCommitsArgs, CursorCollectorArgs}
    /\ store \in RunStores /\ preStore = store /\ writes = 0
    /\ collector = NoCollector
    /\ table \in RunTablesUpTo(MaxRunRows)
    /\ params = RunOptions
    /\ cursorOpen = FALSE /\ opened = FALSE
    /\ seeds = <<>> /\ pulled = <<>> /\ curSeed = NoSeed /\ remoteSize = 0
    /\ page = 0 /\ token = "" /\ total = 0 /\ req = NoRequest /\ resp = NoResponse
    /\ raw = {} /\ log = <<>> /\ ended = {} /\ err = "nil"

\* the entry point returns e: the run has failed, the deferred Close (if the
\* iterator was opened) has run and the persisted state is that of a failure
Return(e) ==
    /\ err' = e
    /\ runState' = "Failed"
    /\ pc' = "done"
    /\ cursorOpen' = (IF opened THEN HeldAfterReturn(cursorOpen) ELSE cursorOpen)
    /\ store' = StateAfterFailure(store)
    /\ writes' = IF StateAfterFailure(store) = store THEN writes ELSE writes + 1

\* helper.NewStatefulApiCollector: loads the CollectorState
NewStatefulApiCollector ==
    /\ pc = "start"
    /\ collector' = store
    /\ pc' = "iterator"
    /\ UNCHANGED <<helperVars, runState, cfg, store, preStore, writes, table, params,
                   cursorOpen, opened, seeds, pulled, curSeed, remoteSize, page, token,
                   total, req, resp, raw, log, ended, err>>

NewStatefulApiCollectorFails ==
    /\ pc = "start"
    /\ Return("state")
    /\ UNCHANGED <<helperVars, cfg, preStore, collector, table, params, opened, seeds,
                   pulled, curSeed, remoteSize, page, token, total, req, resp, raw, log,
                   ended>>

\* GetBranchesIterator: the cursor is opened over the scoped rows
OpenIterator ==
    /\ pc = "iterator"
    /\ \E order \in Orderings(GetBranchesIterator(
                       Database("_tool_bitbucket_server_branches", table),
                       params, collector)) :
           seeds' = order
    /\ cursorOpen' = TRUE /\ opened' = TRUE
    /\ pc' = "init"
    /\ UNCHANGED <<helperVars, runState, cfg, store, preStore, writes, collector, table,
                   params, pulled, curSeed, remoteSize, page, token, total, req, resp,
                   raw, log, ended, err>>

\* db.Cursor returns an error: no cursor is opened
OpenIteratorFails ==
    /\ pc = "iterator"
    /\ Return("cursor")
    /\ UNCHANGED <<helperVars, cfg, preStore, collector, table, params, opened, seeds,
                   pulled, curSeed, remoteSize, page, token, total, req, resp, raw, log,
                   ended>>

InitCollector ==
    /\ pc = "init"
    /\ runState' = "Running"
    /\ pc' = "pull"
    /\ UNCHANGED <<helperVars, cfg, store, preStore, writes, collector, table, params,
                   cursorOpen, opened, seeds, pulled, curSeed, remoteSize, page, token,
                   total, req, resp, raw, log, ended, err>>

InitCollectorFails ==
    /\ pc = "init"
    /\ Return("init")
    /\ UNCHANGED <<helperVars, cfg, preStore, collector, table, params, opened, seeds,
                   pulled, curSeed, remoteSize, page, token, total, req, resp, raw, log,
                   ended>>

\* Execute pulls the next seed and starts its inner pagination loop
PullSeed ==
    /\ pc = "pull" /\ seeds # <<>>
    /\ curSeed' = Head(seeds) /\ seeds' = Tail(seeds)
    /\ \E size \in RemoteSizes :
          /\ remoteSize' = size
          /\ pulled' = Append(pulled, [seed |-> Head(seeds), size |-> size])
    /\ page' = 1 /\ token' = "" /\ total' = 0
    /\ pc' = "request"
    /\ UNCHANGED <<helperVars, runState, cfg, store, preStore, writes, collector, table,
                   params, cursorOpen, opened, req, resp, raw, log, ended, err>>

\* the Input Source is exhausted: Execute persists the CollectorState and
\* returns nil, and the deferred Close releases the cursor
Complete ==
    /\ pc = "pull" /\ seeds = <<>>
    /\ store' = CompletedState /\ writes' = writes + 1
    /\ runState' = "Completed"
    /\ cursorOpen' = HeldAfterReturn(cursorOpen)
    /\ pc' = "done"
    /\ UNCHANGED <<helperVars, cfg, preStore, collector, table, params, opened, seeds,
                   pulled, curSeed, remoteSize, page, token, total, req, resp, raw, log,
                   ended, err>>

\* the cancellation signal is seen between page fetches
Cancel ==
    /\ pc \in {"pull", "request"}
    /\ Return("cancelled")
    /\ UNCHANGED <<helperVars, cfg, preStore, collector, table, params, opened, seeds,
                   pulled, curSeed, remoteSize, page, token, total, req, resp, raw, log,
                   ended>>

RequestsOf(seed) == {i \in 1..Len(log) : log[i].seed = seed}

\* the request of the current page is built and sent, and the HTTP capability
\* answers it
SendRequest ==
    /\ pc = "request"
    /\ req' = [url |-> CommitsUrl(params, curSeed),
               query |-> GetQuery([Page |-> page, Size |-> cfg.PageSize])]
    /\ \E r \in RunResponses(cfg.mode, remoteSize,
                            Cardinality(RequestsOf(curSeed)) + 1, cfg.PageSize) :
          /\ resp' = r
          /\ log' = Append(log, [seed |-> curSeed, page |-> page, token |-> token,
                                 status |-> r.status,
                                 decodes |-> decodeResponse(r) = "nil",
                                 emptyNext |-> (~r.hasNext \/ r.next = <<>>)])
    /\ pc' = "response"
    /\ UNCHANGED <<helperVars, runState, cfg, store, preStore, writes, collector, table,
                   params, cursorOpen, opened, seeds, pulled, curSeed, remoteSize, page,
                   token, total, raw, ended, err>>

\* what the collector's response hook returns for a status
AfterResponse(hook, status) ==
    IF hook = "ignoreHTTPStatus404" THEN ignoreHTTPStatus404(status) ELSE "nil"

\* the records of the page in flight are persisted, tagged with seed and page
Persisted(n) == IF n > 0 THEN raw \cup {[seed |-> curSeed, page |-> page, n |-> n]} ELSE raw

\* the response is classified and fails the run
ResponseFails ==
    /\ pc = "response"
    /\ LET hook == AfterResponse(cfg.afterResponse, resp.status)
       IN  \/ /\ hook = "Unauthorized"
              /\ Return("Unauthorized")
           \/ /\ hook = "nil" /\ resp.status >= 400
              /\ Return("http status")
           \/ /\ hook = "nil" /\ resp.status < 400
              /\ cfg.mode = "count"
              /\ \/ page = 1 /\ GetTotalPagesFromResponse(resp, cfg.PageSize).kind # "ok"
                 \/ GetRawMessageFromResponse(resp).kind # "ok"
              /\ Return("decode")
           \/ /\ hook = "nil" /\ resp.status < 400
              /\ cfg.mode = "cursor"
              /\ \/ GetNextPageCustomData(resp).kind = "error"
                 \/ GetRawMessageFromResponse(resp).kind # "ok"
              /\ Return("decode")
           \/ /\ hook = "nil" /\ resp.status < 400
              /\ cfg.mode = "cursor"
              /\ GetNextPageCustomData(resp).kind = "panic"
              /\ Return("panic")
    /\ UNCHANGED <<helperVars, cfg, preStore, collector, table, params, opened, seeds,
                   pulled, curSeed, remoteSize, page, token, total, req, resp, raw, log,
                   ended>>

\* the hook returns ErrIgnoreAndContinue: the inner loop of this seed ends
ResponseIgnored ==
    /\ pc = "response"
    /\ AfterResponse(cfg.afterResponse, resp.status) = "ErrIgnoreAndContinue"
    /\ ended' = ended \cup {[seed |-> curSeed, how |-> "ignored"]}
    /\ pc' = "pull"
    /\ UNCHANGED <<helperVars, runState, cfg, store, preStore, writes, collector, table,
                   params, cursorOpen, opened, seeds, pulled, curSeed, remoteSize, page,
                   token, total, req, resp, raw, log, err>>

\* page-count mode: the first response gives the total pages; the page is
\* persisted and the loop goes on while the next page is within the total
ResponseCounted ==
    /\ pc = "response" /\ cfg.mode = "count"
    /\ AfterResponse(cfg.afterResponse, resp.status) = "nil" /\ resp.status < 400
    /\ page = 1 => GetTotalPagesFromResponse(resp, cfg.PageSize).kind = "ok"
    /\ GetRawMessageFromResponse(resp).kind = "ok"
    /\ total' = IF page = 1 THEN GetTotalPagesFromResponse(resp, cfg.PageSize).pages
                ELSE total
    /\ raw' = Persisted(GetRawMessageFromResponse(resp).n)
    /\ page' = page + 1
    /\ IF page + 1 > total'
       THEN /\ pc' = "pull"
            /\ ended' = ended \cup {[seed |-> curSeed, how |-> "exhausted"]}
       ELSE /\ pc' = "request"
            /\ ended' = ended
    /\ UNCHANGED <<helperVars, runState, cfg, store, preStore, writes, collector, table,
                   params, cursorOpen, opened, seeds, pulled, curSeed, remoteSize, token,
                   req, resp, log, err>>

\* cursor mode: the page is persisted and the loop goes on with the page
\* token of the next link, or ends on the end-of-collection signal
ResponseCursor ==
    /\ pc = "response" /\ cfg.mode = "cursor"
    /\ AfterResponse(cfg.afterResponse, resp.status) = "nil" /\ resp.status < 400
    /\ GetNextPageCustomData(resp).kind \in {"ok", "finish"}
    /\ GetRawMessageFromResponse(resp).kind = "ok"
    /\ raw' = Persisted(GetRawMessageFromResponse(resp).n)
    /\ page' = page + 1
    /\ IF GetNextPageCustomData(resp).kind = "finish"
       THEN /\ pc' = "pull"
            /\ token' = token
            /\ ended' = ended \cup {[seed |-> curSeed, how |-> "finish"]}
       ELSE /\ pc' = "request"
            /\ token' = GetNextPageCustomData(resp).token
            /\ ended' = ended
    /\ UNCHANGED <<helperVars, runState, cfg, store, preStore, writes, collector, table,
                   params, cursorOpen, opened, seeds, pulled, curSeed, remoteSize, total,
                   req, resp, log, err>>

Next ==
    \/ NewStatefulApiCollector \/ NewStatefulApiCollectorFails
    \/ OpenIterator \/ OpenIteratorFails
    \/ InitCollector \/ InitCollectorFails
    \/ PullSeed \/ Complete \/ Cancel
    \/ SendRequest
    \/ ResponseFails \/ ResponseIgnored \/ ResponseCounted \/ ResponseCursor

Spec == Init /\ [][Next]_vars

\* the run is one sequential thread and every request is answered: a step
\* that can be taken is eventually taken
FairSpec == Spec /\ WF_vars(Next)

Done == pc = "done"
CeilPages(size, pageSize) == (size + pageSize - 1) \div pageSize
NotFoundFor(seed) == \E i \in RequestsOf(seed) : log[i].status = 404
RecordsOf(seed) == {r \in raw : r.seed = seed}
AllPagesPersisted(p) ==
    \A n \in 1..CeilPages(p.size, cfg.PageSize) :
        [seed |-> p.seed, page |-> n, n |-> RecordsOnPage(p.size, n, cfg.PageSize)] \in raw

(***************************************************************************)
(* C2.  Status classification of a response.  In every run a 5xx response  *)
(* fails the run with the generic request error and a 401 response fails   *)
(* the run.  Where the collector classifies its responses with             *)
(* ignoreHTTPStatus404, the error of a 401 is the authentication error,    *)
(* and a 404 is the ignore-and-continue signal: no error is surfaced,      *)
(* nothing is persisted for it, the loop of the current seed ends and the  *)
(* run goes on with the next seed.  The classifier itself returns no error *)
(* for any 5xx status, so all of them take the generic path.               *)
(***************************************************************************)
ClassifiedBy404Hook == cfg.afterResponse = "ignoreHTTPStatus404"
FailsRunWith(e) == pc' = "done" /\ runState' = "Failed" /\ err' = e

ResponseStatusClassified ==
    [][pc = "response" =>
         /\ \A st \in 500..599 : AfterResponse("ignoreHTTPStatus404", st) = "nil"
         /\ (resp.status \in 500..599) => FailsRunWith("http status")
         /\ (resp.status = 401) => pc' = "done" /\ runState' = "Failed" /\ err' # "nil"
         /\ (resp.status = 401 /\ ClassifiedBy404Hook) => FailsRunWith("Unauthorized")
         /\ (resp.status = 404 /\ ClassifiedBy404Hook)
            => /\ pc' = "pull" /\ runState' = "Running" /\ err' = "nil"
               /\ ended' = ended \cup {[seed |-> curSeed, how |-> "ignored"]}
               /\ raw' = raw /\ seeds' = seeds]_vars

NotFoundIgnoredThenCompleted ==
    /\ Done /\ runState = "Completed" /\ err = "nil" /\ ClassifiedBy404Hook
    /\ \E i \in 1..Len(log) : log[i].status = 404 /\ log[i].seed = "dev"
    /\ [seed |-> "dev", how |-> "ignored"] \in ended
    /\ RecordsOf("dev") = {} /\ RecordsOf("main") # {}

(***************************************************************************)
(* C5.  In a commit collection run a 404 for one seed ends that seed's     *)
(* loop only: when nothing else goes wrong the run ends Completed with no  *)
(* error, every seed pulled, no record of the seed answered 404 and every  *)
(* record of the other seeds persisted.                                    *)
(***************************************************************************)
CommitRunSurvivesNotFound ==
    (/\ Done /\ cfg = CollectApiCommitsArgs
     /\ err \notin {"state", "cursor", "init", "cancelled"}
     /\ \A i \in 1..Len(log) : log[i].status \in {200, 404}
                                /\ (log[i].status = 200 => log[i].decodes)
     /\ \E i \in 1..Len(log) : log[i].status = 404)
    => /\ runState = "Completed" /\ err = "nil"
       /\ seeds = <<>>
       /\ \A i \in 1..Len(pulled) :
             IF NotFoundFor(pulled[i].seed)
             THEN RecordsOf(pulled[i].seed) = {}
             ELSE AllPagesPersisted(pulled[i])

(***************************************************************************)
(* C6.  The persisted CollectorState is not written while the run is in    *)
(* Init or Running; it is written exactly once, on the transition to       *)
(* Completed; a run that ends Failed leaves it at its pre-run value.       *)
(***************************************************************************)
StateWrittenOnlyOnCompletion ==
    /\ runState \in {"Init", "Running"} => (writes = 0 /\ store = preStore)
    /\ runState = "Completed" => (writes = 1 /\ store = CompletedState /\ err = "nil")
    /\ runState = "Failed" => (writes = 0 /\ store = preStore)

FailedMidRunStateKept ==
    /\ Done /\ runState = "Failed" /\ err = "decode" /\ raw # {}
    /\ writes = 0 /\ store = preStore

(***************************************************************************)
(* C8.  Once the entry point has opened the Input Source cursor, the       *)
(* cursor is released by the time it returns, on every exit path.          *)
(***************************************************************************)
CursorReleasedOnReturn == (Done /\ opened) => ~cursorOpen

AbortedRunReleasedCursor ==
    /\ Done /\ opened /\ err = "http status" /\ seeds # <<>> /\ ~cursorOpen

(***************************************************************************)
(* C9.  Every run eventually leaves Running and ends Completed or Failed;  *)
(* no seed is pulled twice; in page-count mode a seed gets at most         *)
(* max(1, total pages) requests; in cursor mode the loop of a seed goes on *)
(* only after a next link that is not empty and ends normally only on an   *)
(* empty one (or on the ignore-and-continue signal).                       *)
(***************************************************************************)
LastRequestOf(seed) == CHOOSE i \in RequestsOf(seed) : \A j \in RequestsOf(seed) : j <= i

PaginationBounded ==
    /\ \A i, j \in 1..Len(pulled) : pulled[i].seed = pulled[j].seed => i = j
    /\ \A i \in 1..Len(log) : \E j \in 1..Len(pulled) : pulled[j].seed = log[i].seed
    /\ cfg.mode = "count" =>
          \A i \in 1..Len(pulled) :
              Cardinality(RequestsOf(pulled[i].seed))
                 <= Max(1, CeilPages(pulled[i].size, cfg.PageSize))
    /\ cfg.mode = "cursor" =>
          /\ \A i \in 1..Len(log) :
                (i # LastRequestOf(log[i].seed)) => (log[i].status = 200 /\ ~log[i].emptyNext)
          /\ \A e \in ended :
                /\ e.how \in {"finish", "ignored"}
                /\ e.how = "finish" => log[LastRequestOf(e.seed)].emptyNext
                /\ e.how = "ignored" => log[LastRequestOf(e.seed)].status = 404

RunEnds == []PaginationBounded /\ <>(runState \in {"Completed", "Failed"})

ThreePagesThenNextSeed ==
    /\ runState = "Completed" /\ Len(pulled) = 2
    /\ Cardinality(RequestsOf(pulled[1].seed)) = 3
    /\ Cardinality(RequestsOf(pulled[2].seed)) = 1

====
